---- MODULE Spec2Model ----
(***************************************************************************)
(* Model of src/losses.py: the pairwise distance matrix, the label masks   *)
(* and the forward passes of the batch triplet losses.                     *)
(*                                                                         *)
(* The module is stateless apart from the batch it is given, so the state  *)
(* is the batch (embeddings, labels), the call in progress and what it     *)
(* returned.  One action per function or forward pass; Return ends a call. *)
(***************************************************************************)
EXTENDS Integers, Sequences, FiniteSets, TLC

VARIABLES embeddings, labels, call, ret

vars == <<embeddings, labels, call, ret>>

(***************************************************************************)
(* Bounds of the model.                                                    *)
(***************************************************************************)
\* Largest batch size of the loss specification.
MaxN == 3
\* Largest batch size of the distance specification.
MaxDistN == 3
\* Largest batch size of the specification of the two averaged losses.
MaxPairN == 4

(***************************************************************************)
(* Tensor elements.                                                        *)
(*                                                                         *)
(* A float is <<m, e>>, the float32 number m * 2^e with m odd and          *)
(* |m| < 2^24 (zero is <<0, 0>>; the sign of zero is not kept).  The       *)
(* exponent 128, which no finite float32 reaches, marks the IEEE specials: *)
(* <<0, 128>> NaN, <<1, 128>> +inf, <<-1, 128>> -inf.  Every operation     *)
(* rounds its exact result to the nearest float32, ties to even, with      *)
(* gradual underflow below 2^-126 and overflow to infinity from 2^128, as  *)
(* the float32 kernels of torch do.  Intermediate integers stay below      *)
(* 2^31.                                                                   *)
(***************************************************************************)
NaN == <<0, 128>>
PosInf == <<1, 128>>
NegInf == <<-1, 128>>
Zero == <<0, 0>>
One == <<1, 0>>
Two == <<1, 1>>
Half == <<1, -1>>
\* The literal 1e-16 as a float32, 0x1.cd2b2ap-54.
Eps == <<15111573, -77>>

Abs(k) == IF k < 0 THEN -k ELSE k

Sgn(k) == IF k < 0 THEN -1 ELSE IF k > 0 THEN 1 ELSE 0

Larger(a, b) == IF a < b THEN b ELSE a

Smaller(a, b) == IF a < b THEN a ELSE b

BitLen4(a) == IF a < 4 THEN (IF a < 2 THEN a ELSE 2) ELSE (IF a < 8 THEN 3 ELSE 4)

BitLen8(a) == IF a < 16 THEN BitLen4(a) ELSE 4 + BitLen4(a \div 16)

BitLen16(a) == IF a < 256 THEN BitLen8(a) ELSE 8 + BitLen8(a \div 256)

\* The number of bits of the natural number a.
BitLen(a) == IF a < 65536 THEN BitLen16(a) ELSE 16 + BitLen16(a \div 65536)

\* M * 2^E with the trailing zero bits of M > 0 moved into the exponent.
RECURSIVE OddForm(_, _)
OddForm(M, E) ==
  IF M % 4096 = 0 THEN OddForm(M \div 4096, E + 12)
  ELSE IF M % 2 = 0 THEN OddForm(M \div 2, E + 1)
  ELSE <<M, E>>

Signed(s, x) == <<s * x[1], x[2]>>

Inf(s) == IF s < 0 THEN NegInf ELSE PosInf

\* The float s * M * 2^E for a natural M of at most 24 bits (or 2^24);
\* from 2^128 on it is an infinity.
Pack(s, M, E) ==
  IF M = 0 THEN Zero
  ELSE IF E > 96 /\ E + BitLen(M) > 128 THEN Inf(s)
  ELSE Signed(s, OddForm(M, E))

\* Drop the k low bits of M, rounding to nearest, ties to even; sticky
\* tells that the exact value lies above M * 2^E.
RoundShift(s, M, E, sticky, k) ==
  Pack(s,
       (M \div (2 ^ k))
         + (IF \/ M % (2 ^ k) > 2 ^ (k - 1)
               \/ /\ M % (2 ^ k) = 2 ^ (k - 1)
                  /\ (sticky \/ (M \div (2 ^ k)) % 2 = 1)
            THEN 1 ELSE 0),
       E + k)

RoundBy(s, M, E, sticky, k) ==
  IF M = 0 THEN Zero
  ELSE IF k <= 0 THEN Pack(s, M, E)
  ELSE IF k > 31 THEN Zero
  ELSE IF k = 31
       THEN (IF M > 2 ^ 30 \/ (M = 2 ^ 30 /\ sticky) THEN Pack(s, 1, E + 31) ELSE Zero)
  ELSE RoundShift(s, M, E, sticky, k)

\* The float32 nearest to s * (M + f) * 2^E, where M < 2^31 and 0 <= f < 1
\* with f > 0 iff sticky; a sticky M has at least 26 bits.
Round(s, M, E, sticky) ==
  RoundBy(s, M, E, sticky, Larger(BitLen(M) - 24, -149 - E))

\* An integer as a float32 (x.float(), or a float32 tensor element).
Num(k) == Round(Sgn(k), Abs(k), 0, FALSE)

IsSpecial(x) == x[2] = 128

\* The exponent above the leading bit of a finite non-zero float.
Top(x) == x[2] + BitLen(Abs(x[1]))

QNeg(x) == IF x = NaN THEN NaN ELSE <<-x[1], x[2]>>

QSign(x) == Sgn(x[1])

RoundSigned(S, E) == Round(Sgn(S), Abs(S), E, FALSE)

\* A + sb * (B + f) at exponent EA, sa * A being the larger operand.
AddSticky(sa, A, EA, sb, B, sticky) ==
  IF sa = sb THEN Round(sa, A + B, EA, sticky)
  ELSE IF sticky THEN Round(sa, A - B - 1, EA, TRUE)
  ELSE Round(sa, A - B, EA, FALSE)

\* d is the number of bits of b that lie below the exponent EA.
AddShifted(sa, A, EA, sb, b, d) ==
  IF d <= 0 THEN RoundSigned(sa * A + sb * b * (2 ^ (-d)), EA)
  ELSE IF d > 24 THEN AddSticky(sa, A, EA, sb, 0, TRUE)
  ELSE AddSticky(sa, A, EA, sb, b \div (2 ^ d), b % (2 ^ d) # 0)

\* x + y for finite non-zero x and y with Top(x) >= Top(y): x is widened
\* to 27 bits and y is aligned to it.
AddOrdered(x, y) ==
  AddShifted(Sgn(x[1]),
             Abs(x[1]) * (2 ^ (27 - BitLen(Abs(x[1])))),
             x[2] - (27 - BitLen(Abs(x[1]))),
             Sgn(y[1]), Abs(y[1]),
             x[2] - (27 - BitLen(Abs(x[1]))) - y[2])

\* x + y where both fit, at the exponent lo, in an integer below 2^30.
AddExact(x, y, lo) ==
  RoundSigned(x[1] * (2 ^ (x[2] - lo)) + y[1] * (2 ^ (y[2] - lo)), lo)

\* x + y for finite non-zero x and y with the tops tx and ty.
AddFinite(x, y, tx, ty) ==
  IF Larger(tx, ty) - Smaller(x[2], y[2]) <= 30
  THEN AddExact(x, y, Smaller(x[2], y[2]))
  ELSE IF tx >= ty THEN AddOrdered(x, y)
  ELSE AddOrdered(y, x)

\* float32 addition
QAdd(x, y) ==
  IF x = NaN \/ y = NaN THEN NaN
  ELSE IF IsSpecial(x) THEN (IF IsSpecial(y) /\ y # x THEN NaN ELSE x)
  ELSE IF IsSpecial(y) THEN y
  ELSE IF x[1] = 0 THEN y
  ELSE IF y[1] = 0 THEN x
  ELSE AddFinite(x, y, Top(x), Top(y))

QSub(x, y) == QAdd(x, QNeg(y))

\* The 48-bit product hi * 2^24 + t * 2^12 + lo12, cut to its top 30 bits.
MulCarry(s, hi, t, lo12, E) ==
  Round(s, (hi + (t \div 4096)) * 64 + ((t % 4096) \div 64), E + 18,
        (t % 4096) % 64 # 0 \/ lo12 # 0)

MulLimbs(s, hi, mid, lo, E) == MulCarry(s, hi, mid + (lo \div 4096), lo % 4096, E)

\* The product of two 24-bit significands by their 12-bit halves.
MulWide(s, A, B, E) ==
  MulLimbs(s, (A \div 4096) * (B \div 4096),
           (A \div 4096) * (B % 4096) + (A % 4096) * (B \div 4096),
           (A % 4096) * (B % 4096), E)

MulFinite(s, a, b, E) ==
  IF BitLen(a) + BitLen(b) <= 30 THEN Round(s, a * b, E, FALSE)
  ELSE MulWide(s, a * (2 ^ (24 - BitLen(a))), b * (2 ^ (24 - BitLen(b))),
               E - (24 - BitLen(a)) - (24 - BitLen(b)))

\* float32 multiplication
QMul(x, y) ==
  IF x = NaN \/ y = NaN THEN NaN
  ELSE IF IsSpecial(x) \/ IsSpecial(y)
       THEN (IF x[1] = 0 \/ y[1] = 0 THEN NaN ELSE Inf(QSign(x) * QSign(y)))
  ELSE IF x[1] = 0 \/ y[1] = 0 THEN Zero
  ELSE IF y = One THEN x
  ELSE IF x = One THEN y
  ELSE MulFinite(QSign(x) * QSign(y), Abs(x[1]), Abs(y[1]), x[2] + y[2])

\* The quotient qr[1] and remainder qr[2] after more bits: c is 2^bits.
DivStep(qr, B, c) == <<c * qr[1] + ((c * qr[2]) \div B), (c * qr[2]) % B>>

\* The quotient of A by B with 6 * n bits after the point, and the remainder.
RECURSIVE DivBits(_, _, _)
DivBits(A, B, n) ==
  IF n = 0 THEN <<A \div B, A % B>> ELSE DivStep(DivBits(A, B, n - 1), B, 64)

DivRound(s, qr, E) == Round(s, qr[1], E, qr[2] # 0)

\* The quotient of two 24-bit significands to 26 bits and a remainder.
DivWide(s, A, B, E) == DivRound(s, DivStep(DivBits(A, B, 4), B, 4), E - 26)

DivFinite(s, a, b, E) ==
  DivWide(s, a * (2 ^ (24 - BitLen(a))), b * (2 ^ (24 - BitLen(b))),
          E - (24 - BitLen(a)) + (24 - BitLen(b)))

\* float32 division
QDiv(x, y) ==
  IF x = NaN \/ y = NaN THEN NaN
  ELSE IF IsSpecial(x)
       THEN (IF IsSpecial(y) THEN NaN
             ELSE Inf(QSign(x) * (IF y[1] < 0 THEN -1 ELSE 1)))
  ELSE IF IsSpecial(y) THEN Zero
  ELSE IF y[1] = 0 THEN (IF x[1] = 0 THEN NaN ELSE Inf(QSign(x)))
  ELSE IF x[1] = 0 THEN Zero
  ELSE DivFinite(QSign(x) * QSign(y), Abs(x[1]), Abs(y[1]), x[2] - y[2])

\* |x| < |y| for finite non-zero x and y with the tops tx and ty.
LtMagnitude(x, y, tx, ty) ==
  IF tx # ty THEN tx < ty
  ELSE Abs(x[1]) * (2 ^ (x[2] - Smaller(x[2], y[2])))
         < Abs(y[1]) * (2 ^ (y[2] - Smaller(x[2], y[2])))

\* x < y for finite x and y.
LtFinite(x, y) ==
  IF QSign(x) # QSign(y) THEN QSign(x) < QSign(y)
  ELSE IF QSign(x) = 0 THEN FALSE
  ELSE IF QSign(x) > 0 THEN LtMagnitude(x, y, Top(x), Top(y))
  ELSE LtMagnitude(y, x, Top(y), Top(x))

QLt(x, y) ==
  /\ x # NaN
  /\ y # NaN
  /\ x # y
  /\ IF x = NegInf \/ y = PosInf THEN TRUE
     ELSE IF x = PosInf \/ y = NegInf THEN FALSE
     ELSE LtFinite(x, y)

QGt(x, y) == QLt(y, x)

QMax(x, y) == IF x = NaN \/ y = NaN THEN NaN ELSE IF QLt(x, y) THEN y ELSE x

QMin(x, y) == IF x = NaN \/ y = NaN THEN NaN ELSE IF QLt(y, x) THEN y ELSE x

\* One Newton step towards the integer square root of M.
NewtonStep(x, M) == (x + (M \div x)) \div 2

\* The integer square root of M from an estimate that is at most 1 off.
ISqrtNear(x, M) ==
  IF x * x > M THEN x - 1 ELSE IF (x + 1) * (x + 1) <= M THEN x + 1 ELSE x

\* The integer square root of M, for 2^24 <= M < 2^26.
ISqrt(M) ==
  ISqrtNear(
    NewtonStep(NewtonStep(NewtonStep(NewtonStep(NewtonStep(8192, M), M), M), M), M),
    M)

\* The root r * 2^13 + t of M * 2^26, where r is the root of M and q and
\* rho are the quotient and the remainder of (M - r^2) * 2^12 by r: t is q
\* or q - 1, the largest with t^2 <= 2^14 * ((M - r^2) * 2^12 - r * t).
SqrtLowBits(r, q, rho, E) ==
  IF q < 8192 /\ rho * 16384 >= q * q
  THEN Round(1, r * 8192 + q, E, rho * 16384 # q * q)
  ELSE Round(1, r * 8192 + q - 1, E, (rho + r) * 16384 # (q - 1) * (q - 1))

SqrtFromRoot(r, M, E) ==
  SqrtLowBits(r, ((M - r * r) * 4096) \div r, ((M - r * r) * 4096) % r, E)

\* The root of M * 2^E for a 25- or 26-bit M and an even E, to 26 bits.
SqrtWide(M, E) == SqrtFromRoot(ISqrt(M), M, (E \div 2) - 13)

SqrtShifted(m, e, j) ==
  IF (e - j) % 2 = 0 THEN SqrtWide(m * (2 ^ j), e - j)
  ELSE SqrtWide(m * (2 ^ (j - 1)), e - j + 1)

\* torch.sqrt
QSqrt(x) ==
  IF x = NaN \/ x = NegInf \/ QSign(x) < 0 THEN NaN
  ELSE IF x = PosInf THEN PosInf
  ELSE IF x = Zero THEN Zero
  ELSE SqrtShifted(x[1], x[2], 26 - BitLen(x[1]))

\* exp(-k / 4) rounded to float32, for k = 0 .. 416, at index k + 1.
ExpTable ==
  <<
    <<1, 0>>, <<13066109, -24>>, <<1271987, -21>>, <<15849991, -25>>,
    <<6171993, -24>>, <<4806753, -24>>, <<3743503, -24>>, <<2915443, -24>>,
    <<9082197, -26>>, <<3536611, -25>>, <<5508631, -26>>, <<2145063, -25>>,
    <<6682307, -27>>, <<2602093, -26>>, <<16212097, -29>>, <<6312997, -28>>,
    <<4916567, -28>>, <<15316105, -30>>, <<5964097, -29>>, <<9289687, -30>>,
    <<14469631, -31>>, <<352155, -26>>, <<8776275, -31>>, <<13669939, -32>>,
    <<665385, -28>>, <<16582475, -33>>, <<3228611, -31>>, <<10057779, -33>>,
    <<15666013, -34>>, <<12200703, -34>>, <<9501917, -34>>, <<14800201, -35>>,
    <<1440801, -32>>, <<1122097, -32>>, <<436945, -31>>, <<10889379, -36>>,
    <<8480657, -36>>, <<13209485, -37>>, <<10287557, -37>>, <<16023915, -38>>,
    <<6239719, -37>>, <<2429749, -36>>, <<15138323, -39>>, <<5894869, -38>>,
    <<9181857, -39>>, <<14301675, -40>>, <<2784539, -38>>, <<2168601, -38>>,
    <<6755633, -40>>, <<1315323, -38>>, <<8194997, -41>>, <<3191135, -40>>,
    <<4970517, -41>>, <<7742085, -42>>, <<3014771, -41>>, <<1173953, -40>>,
    <<1828551, -41>>, <<1424077, -41>>, <<4436289, -43>>, <<13819941, -45>>,
    <<10762981, -45>>, <<4191109, -44>>, <<3264039, -44>>, <<10168145, -46>>,
    <<7918959, -46>>, <<12334583, -47>>, <<9606183, -47>>, <<14962605, -48>>,
    <<11652889, -48>>, <<9075279, -48>>, <<14135669, -49>>, <<5504435, -48>>,
    <<2143429, -47>>, <<6677217, -49>>, <<2600111, -48>>, <<16199747, -51>>,
    <<1577047, -48>>, <<9825643, -51>>, <<7652219, -51>>, <<2979777, -50>>,
    <<9282611, -52>>, <<14458609, -53>>, <<1407547, -50>>, <<4384795, -52>>,
    <<13659527, -54>>, <<5319025, -53>>, <<16569843, -55>>, <<12904607, -55>>,
    <<5025059, -54>>, <<15654079, -56>>, <<12191409, -56>>, <<9494679, -56>>,
    <<14788927, -57>>, <<2879407, -55>>, <<4484969, -56>>, <<13971589, -58>>,
    <<2720271, -56>>, <<8474197, -58>>, <<13199423, -59>>, <<10279721, -59>>,
    <<16011709, -60>>, <<3117483, -58>>, <<9711593, -60>>, <<1890849, -58>>,
    <<11780757, -61>>, <<9174863, -61>>, <<14290781, -62>>, <<11129671, -62>>,
    <<8667797, -62>>, <<6750487, -62>>, <<10514569, -63>>, <<16377509, -64>>,
    <<12754817, -64>>, <<9933461, -64>>, <<15472375, -65>>, <<6024949, -64>>,
    <<4692235, -64>>, <<14617265, -66>>, <<11383937, -66>>, <<8865819, -66>>,
    <<6904707, -66>>, <<10754783, -67>>, <<8375833, -67>>, <<13046211, -68>>,
    <<10160399, -68>>, <<7912927, -68>>, <<12325187, -69>>, <<9598865, -69>>,
    <<1868901, -67>>, <<2911003, -68>>, <<4534183, -69>>, <<14124901, -71>>,
    <<2750121, -69>>, <<8567185, -71>>, <<6672131, -71>>, <<10392521, -72>>,
    <<16187407, -73>>, <<6303383, -72>>, <<9818159, -73>>, <<3823195, -72>>,
    <<11910029, -74>>, <<2318885, -72>>, <<14447595, -75>>, <<11251799, -75>>,
    <<8762909, -75>>, <<6824561, -75>>, <<10629947, -76>>, <<16557221, -77>>,
    <<12894777, -77>>, <<5021231, -76>>, <<15642155, -78>>, <<12182123, -78>>,
    <<9487447, -78>>, <<7388831, -78>>, <<11508855, -79>>, <<8963105, -79>>,
    <<6980473, -79>>, <<2718199, -78>>, <<4233871, -79>>, <<1648671, -78>>,
    <<5135945, -80>>, <<1999939, -79>>, <<12460433, -82>>, <<9704195, -82>>,
    <<15115269, -83>>, <<11771783, -83>>, <<4583937, -82>>, <<14279895, -84>>,
    <<11121193, -84>>, <<4330597, -83>>, <<6745345, -84>>, <<164165, -79>>,
    <<8182517, -85>>, <<12745101, -86>>, <<9925895, -86>>, <<15460589, -87>>,
    <<12040719, -87>>, <<9377321, -87>>, <<7303065, -87>>, <<5687633, -87>>,
    <<4429533, -87>>, <<13798895, -89>>, <<5373295, -88>>, <<8369453, -89>>,
    <<13036273, -90>>, <<2538165, -88>>, <<7906899, -90>>, <<12315799, -91>>,
    <<4795777, -90>>, <<14939819, -92>>, <<11635143, -92>>, <<4530729, -91>>,
    <<14114141, -93>>, <<1374013, -90>>, <<2140165, -91>>, <<13334097, -94>>,
    <<10384605, -94>>, <<16175077, -95>>, <<12597163, -95>>, <<1226335, -92>>,
    <<15281131, -96>>, <<11900957, -96>>, <<4634237, -95>>, <<7218295, -96>>,
    <<2810807, -95>>, <<4378117, -96>>, <<13638725, -98>>, <<10621849, -98>>,
    <<16544609, -99>>, <<12884955, -99>>, <<10034813, -99>>, <<488445, -95>>,
    <<12172843, -100>>, <<2370055, -98>>, <<14766405, -101>>, <<1437511, -98>>,
    <<8956277, -101>>, <<1743789, -99>>, <<5432257, -101>>, <<2115323, -100>>,
    <<13179321, -103>>, <<5132033, -102>>, <<15987325, -104>>, <<12450941, -104>>,
    <<9696803, -104>>, <<15103755, -105>>, <<91897, -98>>, <<9160891, -105>>,
    <<7134509, -105>>, <<5556361, -105>>, <<8654597, -106>>, <<13480413, -107>>,
    <<2624639, -105>>, <<2044071, -105>>, <<12735393, -108>>, <<4959167, -107>>,
    <<3862203, -107>>, <<12031547, -109>>, <<4685089, -108>>, <<3648751, -108>>,
    <<11366601, -110>>, <<4426159, -109>>, <<430887, -106>>, <<2684601, -109>>,
    <<16726155, -112>>, <<13026343, -112>>, <<5072463, -111>>, <<1975219, -110>>,
    <<12306417, -113>>, <<9584247, -113>>, <<14928439, -114>>, <<1453285, -111>>,
    <<2263639, -112>>, <<7051695, -114>>, <<10983731, -115>>, <<8554139, -115>>,
    <<3330985, -114>>, <<10376695, -116>>, <<4040689, -115>>, <<12587567, -117>>,
    <<9803207, -117>>, <<7634745, -117>>, <<11891891, -118>>, <<4630707, -117>>,
    <<14425593, -119>>, <<11234663, -119>>, <<8749565, -119>>, <<13628335, -120>>,
    <<5306879, -119>>, <<8266003, -120>>, <<3218785, -119>>, <<10027169, -121>>,
    <<7809167, -121>>, <<12163571, -122>>, <<4736499, -121>>, <<14755157, -123>>,
    <<5611, -112>>, <<8949455, -123>>, <<13939685, -124>>, <<5428119, -123>>,
    <<8454847, -124>>, <<6584641, -124>>, <<10256247, -125>>, <<15975147, -126>>,
    <<12441457, -126>>, <<1211177, -123>>, <<7546125, -126>>, <<91827, -120>>,
    <<1144239, -124>>, <<3564537, -126>>, <<11104257, -128>>, <<2162001, -126>>,
    <<13470145, -129>>, <<10490559, -129>>, <<1021257, -126>>, <<3181423, -128>>,
    <<9910779, -130>>, <<3859261, -129>>, <<6011191, -130>>, <<9363041, -131>>,
    <<14583887, -132>>, <<5678971, -131>>, <<4422787, -131>>, <<13777881, -133>>,
    <<670639, -129>>, <<8356707, -133>>, <<3254105, -132>>, <<5068599, -133>>,
    <<3947429, -133>>, <<12297043, -135>>, <<9576947, -135>>, <<14917067, -136>>,
    <<726089, -132>>, <<9047659, -136>>, <<14092647, -137>>, <<10975365, -137>>,
    <<8547623, -137>>, <<6656895, -137>>, <<5184395, -137>>, <<4037611, -137>>,
    <<6288989, -138>>, <<9795739, -139>>, <<15257859, -140>>, <<11882833, -140>>,
    <<9254359, -140>>, <<14414605, -141>>, <<11226105, -141>>, <<2185725, -139>>,
    <<6808977, -141>>, <<10605673, -142>>, <<16519413, -143>>, <<3216333, -141>>,
    <<10019531, -143>>, <<15606437, -144>>, <<12154305, -144>>, <<4732891, -143>>,
    <<14743917, -145>>, <<5741287, -144>>, <<4471319, -144>>, <<13929067, -146>>,
    <<338999, -141>>, <<4224203, -145>>, <<13159251, -147>>, <<10248435, -147>>,
    <<7981489, -147>>, <<3107995, -146>>, <<2420509, -146>>, <<7540377, -148>>,
    <<11744903, -149>>, <<2286735, -147>>, <<1780911, -147>>, <<5547899, -149>>,
    <<1080177, -147>>, <<3364971, -149>>, <<1310321, -148>>, <<1020479, -148>>,
    <<397375, -147>>, <<77369, -145>>, <<60255, -145>>, <<750827, -149>>,
    <<73093, -146>>, <<455399, -149>>, <<354665, -149>>, <<138107, -148>>,
    <<215115, -149>>, <<41883, -147>>, <<65237, -148>>, <<101613, -149>>,
    <<79137, -149>>, <<963, -143>>, <<47999, -149>>, <<37381, -149>>,
    <<29113, -149>>, <<22673, -149>>, <<8829, -148>>, <<1719, -146>>,
    <<5355, -148>>, <<8341, -149>>, <<203, -144>>, <<5059, -149>>,
    <<985, -147>>, <<767, -147>>, <<1195, -148>>, <<1861, -149>>,
    <<1449, -149>>, <<1129, -149>>, <<879, -149>>, <<685, -149>>,
    <<533, -149>>, <<415, -149>>, <<323, -149>>, <<63, -147>>,
    <<49, -147>>, <<153, -149>>, <<119, -149>>, <<93, -149>>,
    <<9, -146>>, <<7, -146>>, <<11, -147>>, <<17, -148>>,
    <<27, -149>>, <<21, -149>>, <<1, -145>>, <<13, -149>>,
    <<5, -148>>, <<1, -146>>, <<3, -148>>, <<5, -149>>,
    <<1, -147>>, <<3, -149>>, <<1, -148>>, <<1, -148>>,
    <<1, -149>>, <<1, -149>>, <<1, -149>>, <<1, -149>>,
    <<0, 0>>
  >>

\* torch.exp on the arguments the losses give it: -inf, the multiples of
\* 1/4 from -104 to 0, everything below -104 (where float32 has 0) and
\* the arguments nearer to 0 than 2^-25 (where float32 has 1).
\* The least float32 whose exp is above the float32 range, 0x1.62e43p+6:
\* torch.exp gives inf from here on.
ExpOverflow == <<1453635, -14>>

ExpOverflows(x) == x # NaN /\ ~QLt(x, ExpOverflow)

\* torch.exp, for the arguments -k / 4 of the table, the arguments that
\* underflow and the arguments that overflow.
QExp(x) ==
  IF x = NaN THEN NaN
  ELSE IF x = NegInf THEN Zero
  ELSE IF ExpOverflows(x) THEN PosInf
  ELSE IF x[1] = 0 \/ Top(x) <= -25 THEN One
  ELSE IF QLt(x, <<-13, 3>>) THEN Zero
  ELSE ExpTable[1 + (-x[1]) * (2 ^ (x[2] + 2))]

\* F.relu
relu(x) == IF x = NaN THEN NaN ELSE IF QLt(x, Zero) THEN Zero ELSE x

\* torch.gt(x, 1e-16).float()
GtEps(x) == IF QGt(x, Eps) THEN 1 ELSE 0

\* acc + s[lo] + ... + s[hi], added one after the other in index order; a
\* NaN accumulator stays NaN.
RECURSIVE SumSeg(_, _, _, _)
SumSeg(s, lo, hi, acc) ==
  IF acc = NaN \/ lo > hi THEN acc
  ELSE IF lo = hi THEN QAdd(acc, s[lo])
  ELSE SumSeg(s, ((lo + hi) \div 2) + 1, hi, SumSeg(s, lo, (lo + hi) \div 2, acc))
\* torch.sum over a sequence of floats.
QSum(s) == SumSeg(s, 1, Len(s), Zero)

RECURSIVE MaxFrom(_, _)
MaxFrom(s, i) == IF i = Len(s) THEN s[i] ELSE QMax(s[i], MaxFrom(s, i + 1))
\* torch.max(row): the largest element of a non-empty row.
RowMax(s) == MaxFrom(s, 1)

RECURSIVE MinFrom(_, _)
MinFrom(s, i) == IF i = Len(s) THEN s[i] ELSE QMin(s[i], MinFrom(s, i + 1))
\* torch.min(row): the smallest element of a non-empty row.
RowMin(s) == MinFrom(s, 1)

\* s[lo] + ... + s[hi]
RECURSIVE IntSumSeg(_, _, _)
IntSumSeg(s, lo, hi) ==
  IF lo > hi THEN 0
  ELSE IF lo = hi THEN s[lo]
  ELSE IntSumSeg(s, lo, (lo + hi) \div 2) + IntSumSeg(s, ((lo + hi) \div 2) + 1, hi)
\* The sum of a sequence of integers.
IntSum(s) == IntSumSeg(s, 1, Len(s))

\* Tensors are sequences (of sequences) of elements, indexed from 1.
Vec(n, F(_)) == [i \in 1..n |-> F(i)] \o <<>>

Mat(n, F(_, _)) == Vec(n, LAMBDA i : Vec(n, LAMBDA j : F(i, j)))

Cube(n, F(_, _, _)) ==
  Vec(n, LAMBDA i : Vec(n, LAMBDA j : Vec(n, LAMBDA k : F(i, j, k))))

\* The elements of an n x n x n tensor, in index order.
Flatten3(t, n) ==
  Vec(n * n * n, LAMBDA x :
     t[((x - 1) \div (n * n)) + 1][(((x - 1) \div n) % n) + 1][((x - 1) % n) + 1])

(***************************************************************************)
(* pairwise_distance                                                       *)
(***************************************************************************)
\* The dot product of the first k coordinates, accumulated in index order.
RECURSIVE DotUpTo(_, _, _)
DotUpTo(u, v, k) ==
  IF k = 0 THEN Zero
  ELSE QAdd(DotUpTo(u, v, k - 1), QMul(Num(u[k]), Num(v[k])))

\* torch.mm(embeddings, embeddings.t())
GramMatrix(emb) ==
  Mat(Len(emb), LAMBDA i, j : DotUpTo(emb[i], emb[j], Len(emb[i])))

\* The variant without the final * (1.0 - mask).
SqrtWithEpsilon_NoCorrection(d) ==
  LET mask == IF d = Zero THEN One ELSE Zero
      shifted == QAdd(d, QMul(mask, Eps))
  IN  QSqrt(shifted)

\* distances + mask * 1e-16, torch.sqrt, then * (1.0 - mask)
SqrtWithEpsilon(d) ==
  LET mask == IF d = Zero THEN One ELSE Zero
      shifted == QAdd(d, QMul(mask, Eps))
  IN  QMul(QSqrt(shifted), QSub(One, mask))

\* torch.diag(dot_product)
SquareNorm(dot_product) == Vec(Len(dot_product), LAMBDA i : dot_product[i][i])

\* unsqueeze(square_norm, 1) - 2.0 * dot_product + unsqueeze(square_norm, 0),
\* then torch.max(distances, 0.0)
SquaredDistances(dot_product, square_norm) ==
  Mat(Len(dot_product), LAMBDA i, j :
    QMax(QAdd(QSub(square_norm[i], QMul(Two, dot_product[i][j])),
              square_norm[j]),
         Zero))

\* The branch taken if not squared.
RootedDistances(distances) ==
  Mat(Len(distances), LAMBDA i, j : SqrtWithEpsilon(distances[i][j]))

DistancesFromGram(dot_product, squared) ==
  IF squared THEN SquaredDistances(dot_product, SquareNorm(dot_product))
  ELSE RootedDistances(SquaredDistances(dot_product, SquareNorm(dot_product)))

pairwise_distance(emb, squared) == DistancesFromGram(GramMatrix(emb), squared)

(***************************************************************************)
(* The label masks.  A mask element is 0 or 1 (a uint8 or a bool).         *)
(***************************************************************************)
Byte(b) == IF b THEN 1 ELSE 0

\* torch.eye(n).byte() ^ 1
IndicesNotEqual(n) == Mat(n, LAMBDA i, j : (Byte(i = j) + 1) % 2)

\* torch.unsqueeze(labels, 0) == torch.unsqueeze(labels, 1)
LabelsEqual(lab) == Mat(Len(lab), LAMBDA i, j : lab[j] = lab[i])

\* The variant without the i_not_equal_j factor.
get_triplet_mask_NoAnchorCheck(lab) ==
  LET n == Len(lab)
      indices_not_same == IndicesNotEqual(n)
      label_equal == LabelsEqual(lab)
  IN  Cube(n, LAMBDA i, j, k :
        (indices_not_same[i][k] * indices_not_same[j][k])
          * Byte(label_equal[i][j] /\ ~label_equal[i][k]))

get_triplet_mask(lab) ==
  LET n == Len(lab)
      indices_not_same == IndicesNotEqual(n)
      distinct_indices ==
        Cube(n, LAMBDA i, j, k :
          indices_not_same[i][j] * indices_not_same[i][k] * indices_not_same[j][k])
      label_equal == LabelsEqual(lab)
      valid_labels ==
        Cube(n, LAMBDA i, j, k : label_equal[i][j] /\ ~label_equal[i][k])
  IN  Cube(n, LAMBDA i, j, k :
        distinct_indices[i][j][k] * Byte(valid_labels[i][j][k]))

\* The variant without the indices_not_equal factor.
get_anchor_positive_triplet_mask_NoIndexCheck(lab) ==
  LET n == Len(lab)
      labels_equal == LabelsEqual(lab)
  IN  Mat(n, LAMBDA i, j : Byte(labels_equal[i][j]))

get_anchor_positive_triplet_mask(lab) ==
  LET n == Len(lab)
      indices_not_equal == IndicesNotEqual(n)
      labels_equal == LabelsEqual(lab)
  IN  Mat(n, LAMBDA i, j : indices_not_equal[i][j] * Byte(labels_equal[i][j]))

get_anchor_negative_triplet_mask(lab) ==
  LET n == Len(lab)
      labels_equal == LabelsEqual(lab)
  IN  Mat(n, LAMBDA i, j : Byte(~labels_equal[i][j]))

\* mask.float()
ToFloat(b) == Num(b)

(***************************************************************************)
(* BatchHardTripletLoss                                                    *)
(*                                                                         *)
(* With soft_margin the element log1p(exp(x)) * m is kept as <<m, x>>, m   *)
(* being the mask element.  Where exp(x) overflows, log1p(exp(x)) is inf,  *)
(* and the element is inf for m = 1 and inf * 0 = NaN for m = 0; where x   *)
(* is NaN the element is NaN.  A sum of such elements is kept as the       *)
(* record [softplus_of |-> xs, plus |-> s]: the sum of log1p(exp(x)) over  *)
(* the arguments xs of the finite unmasked elements, plus the sum s (0,    *)
(* inf or NaN) of the other elements.  A loss is such a sum with the       *)
(* divisor in the field over; it is NaN when plus is NaN and inf when plus *)
(* is inf.                                                                 *)
(***************************************************************************)
\* log(1e-16): log1p(exp(x)) > 1e-16 iff x is above it.
LogEps == <<-4828871, -17>>

\* torch.gt(log1p(exp(x)) * m, 1e-16).float()
SoftGtEps(e) ==
  IF e[1] = 1 /\ e[2] # NaN /\ e[2] # NegInf /\ QGt(e[2], LogEps) THEN 1 ELSE 0

\* log1p(exp(x)) * m where it is not finite, and 0 where it is.
SoftNonFinite(e) ==
  IF e[2] = NaN THEN NaN
  ELSE IF ExpOverflows(e[2]) THEN (IF e[1] = 1 THEN PosInf ELSE NaN)
  ELSE Zero

\* The arguments of the finite unmasked soft-margin elements, in order.
SoftArgs(s) ==
  LET kept == SelectSeq(s, LAMBDA e : e[1] = 1 /\ SoftNonFinite(e) = Zero)
  IN  Vec(Len(kept), LAMBDA i : kept[i][2])

\* torch.sum of the soft-margin elements.
SoftSum(s) ==
  [softplus_of |-> SoftArgs(s),
   plus |-> QSum(Vec(Len(s), LAMBDA i : SoftNonFinite(s[i])))]

HardestPositive(pairwise_dist, lab) ==
  LET n == Len(lab)
      mask_anchor_positive == get_anchor_positive_triplet_mask(lab)
      valid_positive_dist ==
        Mat(n, LAMBDA i, j :
          QMul(pairwise_dist[i][j], ToFloat(mask_anchor_positive[i][j])))
  IN  Vec(n, LAMBDA i : RowMax(valid_positive_dist[i]))

\* The variant that masks the negatives by multiplication, as for the positives.
HardestNegative_NoRowMax(pairwise_dist, lab) ==
  LET n == Len(lab)
      mask_anchor_negative == get_anchor_negative_triplet_mask(lab)
      anchor_negative_dist ==
        Mat(n, LAMBDA i, j :
          QMul(pairwise_dist[i][j], ToFloat(mask_anchor_negative[i][j])))
  IN  Vec(n, LAMBDA i : RowMin(anchor_negative_dist[i]))

HardestNegative(pairwise_dist, lab) ==
  LET n == Len(lab)
      mask_anchor_negative == get_anchor_negative_triplet_mask(lab)
      max_anchor_negative_dist == Vec(n, LAMBDA i : RowMax(pairwise_dist[i]))
      anchor_negative_dist ==
        Mat(n, LAMBDA i, j :
          QAdd(pairwise_dist[i][j],
               QMul(max_anchor_negative_dist[i],
                    QSub(One, ToFloat(mask_anchor_negative[i][j])))))
  IN  Vec(n, LAMBDA i : RowMin(anchor_negative_dist[i]))

\* log1p(exp(hardest_positive_dist - hardest_negative_dist))
BatchHardSoft(hardest_positive_dist, hardest_negative_dist) ==
  Vec(Len(hardest_positive_dist), LAMBDA i :
    <<1, QSub(hardest_positive_dist[i], hardest_negative_dist[i])>>)

\* F.relu(hardest_positive_dist - hardest_negative_dist + self.margin)
BatchHardHinge(hardest_positive_dist, hardest_negative_dist, margin) ==
  Vec(Len(hardest_positive_dist), LAMBDA i :
    relu(QAdd(QSub(hardest_positive_dist[i], hardest_negative_dist[i]), margin)))

\* The count of the elements above 1e-16 and the mean of the elements.
BatchHardReduce(triplet_loss, soft_margin) ==
  IF soft_margin
  THEN [status |-> "returned",
        loss |-> SoftSum(triplet_loss) @@ [over |-> Num(Len(triplet_loss))],
        num |-> IntSum(Vec(Len(triplet_loss), LAMBDA i : SoftGtEps(triplet_loss[i])))]
  ELSE [status |-> "returned",
        loss |-> QDiv(QSum(triplet_loss), Num(Len(triplet_loss))),
        num |-> IntSum(Vec(Len(triplet_loss), LAMBDA i : GtEps(triplet_loss[i])))]

BatchHardCombine(hardest_positive_dist, hardest_negative_dist, margin, soft_margin) ==
  [hardest_positive_dist |-> hardest_positive_dist,
   hardest_negative_dist |-> hardest_negative_dist]
  @@ BatchHardReduce(
       IF soft_margin
       THEN BatchHardSoft(hardest_positive_dist, hardest_negative_dist)
       ELSE BatchHardHinge(hardest_positive_dist, hardest_negative_dist, margin),
       soft_margin)

BatchHardFromDistances(pairwise_dist, lab, margin, soft_margin) ==
  BatchHardCombine(HardestPositive(pairwise_dist, lab),
                   HardestNegative(pairwise_dist, lab), margin, soft_margin)

\* The result holds, besides (loss, num), the two per-anchor selections.
BatchHardTripletLoss_forward(emb, lab, margin, squared, soft_margin) ==
  BatchHardFromDistances(pairwise_distance(emb, squared), lab, margin, soft_margin)

(***************************************************************************)
(* BatchAllTripletLoss                                                     *)
(***************************************************************************)
\* (anchor_positive_dist - anchor_negative_dist + margin) * mask, then relu
HingeTensor(pairwise_dist, mask, margin) ==
  Cube(Len(pairwise_dist), LAMBDA i, j, k :
    relu(QMul(QAdd(QSub(pairwise_dist[i][j], pairwise_dist[i][k]), margin),
              ToFloat(mask[i][j][k]))))

\* log1p(exp(anchor_positive_dist - anchor_negative_dist)) * mask
SoftTensor(pairwise_dist, mask) ==
  Cube(Len(pairwise_dist), LAMBDA i, j, k :
    <<mask[i][j][k], QSub(pairwise_dist[i][j], pairwise_dist[i][k])>>)

\* torch.sum(torch.gt(triplet_loss, 1e-16).float())
CountHard(flat) == IntSum(Vec(Len(flat), LAMBDA x : GtEps(flat[x])))

\* The variant without the 1e-16 in the denominator.
AverageOverHard_NoEpsilon(flat, num) == QDiv(QSum(flat), Num(num))

\* torch.sum(triplet_loss) / (num_hard_triplets + 1e-16)
AverageOverHard(flat, num) == QDiv(QSum(flat), QAdd(Num(num), Eps))

\* The count and the average of the soft-margin elements.
BatchAllSoftReduce(soft, num) ==
  [status |-> "returned",
   loss |-> SoftSum(soft) @@ [over |-> QAdd(Num(num), Eps)],
   num |-> num]

BatchAllHingeReduce(hinge, num) ==
  [status |-> "returned", loss |-> AverageOverHard(hinge, num), num |-> num]

BatchAllSoft(soft) ==
  BatchAllSoftReduce(soft, IntSum(Vec(Len(soft), LAMBDA x : SoftGtEps(soft[x]))))

BatchAllHinge(hinge) == BatchAllHingeReduce(hinge, CountHard(hinge))

BatchAllFromDistances(pairwise_dist, lab, margin, soft_margin) ==
  IF soft_margin
  THEN BatchAllSoft(Flatten3(SoftTensor(pairwise_dist, get_triplet_mask(lab)), Len(lab)))
  ELSE BatchAllHinge(
         Flatten3(HingeTensor(pairwise_dist, get_triplet_mask(lab), margin), Len(lab)))

BatchAllTripletLoss_forward(emb, lab, margin, squared, soft_margin) ==
  BatchAllFromDistances(pairwise_distance(emb, squared), lab, margin, soft_margin)

(***************************************************************************)
(* The Gaussian kernel bandwidth, BatchAllWithOutlierTripletLoss and       *)
(* LargeMarginLoss.                                                        *)
(***************************************************************************)
\* The k of pairwise_dist.topk(k=8, dim=1, largest=False).
TopK == 8

(***************************************************************************)
(* Python floats.                                                          *)
(*                                                                         *)
(* self.kernel_width is a Python float, a float64.  It is <<hi, lo, e>>,   *)
(* the number (hi * 2^24 + lo) * 2^e with 0 <= lo < 2^24 and               *)
(* 0 <= hi < 2^29 (hi and lo are negated for a negative number); only      *)
(* finite widths are modelled.  An intermediate float64 is <<a, E>>, the   *)
(* number a * 2^E >= 0 with a natural a held as the sequence of its digits *)
(* in base 4096, lowest digit first.  Each float64 operation rounds its    *)
(* exact result to 53 bits, ties to even.                                  *)
(***************************************************************************)
PyOne == <<0, 1, 0>>
PyTwo == <<0, 1, 1>>
\* The literal 1e-16 as a float64, 0x1.cd2b297d889bcp-54.
PyEps == <<<<623, 3938, 3237, 842, 7>>, -104>>

BigLimb(a, i) == IF i >= 1 /\ i <= Len(a) THEN a[i] ELSE 0

\* The digits of the number whose i-th digit holds cols[i], all below 2^30.
RECURSIVE BigCarry(_, _, _)
BigCarry(cols, i, c) ==
  IF i > Len(cols) THEN <<>>
  ELSE <<(cols[i] + c) % 4096>> \o BigCarry(cols, i + 1, (cols[i] + c) \div 4096)

BigAdd(a, b) ==
  BigCarry(Vec(Larger(Len(a), Len(b)) + 1, LAMBDA i : BigLimb(a, i) + BigLimb(b, i)),
           1, 0)

BigMul(a, b) ==
  BigCarry(Vec(Len(a) + Len(b), LAMBDA k :
             IntSum(Vec(Len(a), LAMBDA i : a[i] * BigLimb(b, k + 1 - i)))),
           1, 0)

\* The number of digits up to the leading non-zero digit.
BigLen(a) ==
  IF \A i \in 1..Len(a) : a[i] = 0 THEN 0
  ELSE CHOOSE i \in 1..Len(a) : a[i] # 0 /\ \A j \in (i + 1)..Len(a) : a[j] = 0

BigBitLen(a) ==
  IF BigLen(a) = 0 THEN 0 ELSE 12 * (BigLen(a) - 1) + BitLen(a[BigLen(a)])

\* a \div 2^k
BigShr(a, k) ==
  Vec(Larger(Len(a) - (k \div 12), 0), LAMBDA i :
    (BigLimb(a, i + (k \div 12)) \div (2 ^ (k % 12)))
      + (BigLimb(a, i + (k \div 12) + 1) % (2 ^ (k % 12))) * (2 ^ (12 - (k % 12))))

\* a * 2^k
BigShl(a, k) ==
  Vec(Len(a) + (k \div 12) + 1, LAMBDA i :
    ((BigLimb(a, i - (k \div 12)) * (2 ^ (k % 12))) % 4096)
      + (BigLimb(a, i - (k \div 12) - 1) \div (2 ^ (12 - (k % 12)))))

\* a % 2^k = 0
BigLowZero(a, k) ==
  /\ \A i \in 1..(k \div 12) : BigLimb(a, i) = 0
  /\ BigLimb(a, (k \div 12) + 1) % (2 ^ (k % 12)) = 0

\* Bit i of a, bit 0 being the lowest.
BigBit(a, i) == (BigLimb(a, (i \div 12) + 1) \div (2 ^ (i % 12))) % 2

\* A natural below 2^31 from its digits.
BigToInt(a) == BigLimb(a, 1) + 4096 * BigLimb(a, 2) + 16777216 * BigLimb(a, 3)

\* a * 2^E with the k >= 1 low bits of a dropped, rounded to nearest, ties
\* to even.
BigRoundShift(a, E, k) ==
  <<IF BigBit(a, k - 1) = 1 /\ (~BigLowZero(a, k - 1) \/ BigBit(a, k) = 1)
    THEN BigAdd(BigShr(a, k), <<1>>)
    ELSE BigShr(a, k),
    E + k>>

\* The float64 nearest to a * 2^E.
BigRound64(a, E) ==
  IF Larger(BigBitLen(a) - 53, -1074 - E) <= 0 THEN <<a, E>>
  ELSE BigRoundShift(a, E, Larger(BigBitLen(a) - 53, -1074 - E))

\* The magnitude of a Python float in base 4096.
PyLimbs(w) ==
  <<Abs(w[2]) % 4096, Abs(w[2]) \div 4096,
    Abs(w[1]) % 4096, (Abs(w[1]) \div 4096) % 4096, Abs(w[1]) \div 16777216>>

\* w ** 2 in float64
PySquare(w) == BigRound64(BigMul(PyLimbs(w), PyLimbs(w)), 2 * w[3])

\* The position above the leading bit of a float64 magnitude.
PyTop(x) == BigBitLen(x[1]) + x[2]

\* w ** 2 raises OverflowError when the square is out of the float64 range.
SquareOverflows(w) == PyTop(PySquare(w)) > 1024

\* x + y in float64, for x, y >= 0.  An operand below a quarter of the last
\* bit of the other leaves it unchanged.
PyAddAligned(x, y, E) ==
  BigRound64(BigAdd(BigShl(x[1], x[2] - E), BigShl(y[1], y[2] - E)), E)

PyAdd(x, y) ==
  IF BigLen(x[1]) = 0 THEN y
  ELSE IF BigLen(y[1]) = 0 THEN x
  ELSE IF PyTop(x) - PyTop(y) > 55 THEN x
  ELSE IF PyTop(y) - PyTop(x) > 55 THEN y
  ELSE PyAddAligned(x, y, Smaller(x[2], y[2]))

\* 1 / 2 * x: 1 / 2 is the Python float 0.5, and the product is exact for
\* x >= 1e-16.
PyHalf(x) == <<x[1], x[2] - 1>>

\* The float32 nearest to the float64 x >= 0: a tensor operation takes a
\* Python float operand as a float32.
WideToFloat32(x) ==
  IF BigLen(x[1]) = 0 THEN Zero
  ELSE Round(1, BigToInt(BigShr(x[1], Larger(BigBitLen(x[1]) - 30, 0))),
             x[2] + Larger(BigBitLen(x[1]) - 30, 0),
             ~BigLowZero(x[1], Larger(BigBitLen(x[1]) - 30, 0)))

\* A Python float as a float32.
PyToFloat32(w) ==
  IF w[1] < 0 \/ w[2] < 0
  THEN QNeg(WideToFloat32(<<PyLimbs(w), w[3]>>))
  ELSE WideToFloat32(<<PyLimbs(w), w[3]>>)

\* gamma = 1 / 2 * (self.kernel_width ** 2 + 1e-16), computed in float64,
\* as the float32 that torch.mul takes it for.
BandwidthGamma(width) == WideToFloat32(PyHalf(PyAdd(PySquare(width), PyEps)))

\* gamma = 1 / 2 * (delta[:, -1] ** 2 + 1e-16) on a float32 tensor
AdaptiveGamma(delta) == QMul(Half, QAdd(QMul(delta, delta), Eps))

\* delta[:, -1] of topk(k, largest=False): the k-th smallest element of a row.
KthSmallest(row, k) ==
  CHOOSE v \in {row[j] : j \in 1..Len(row)} :
    /\ Cardinality({j \in 1..Len(row) : QLt(row[j], v)}) < k
    /\ Cardinality({j \in 1..Len(row) : ~QLt(v, row[j])}) >= k

\* outlier_prob.clamp_(min=lo, max=hi)
Clamp(x, lo, hi) == QMin(QMax(x, lo), hi)

\* torch.exp(- torch.mul(pairwise_dist ** 2, gamma))
KernelMatrix(pairwise_dist, gamma) ==
  Mat(Len(pairwise_dist), LAMBDA i, j :
    QExp(QNeg(QMul(QMul(pairwise_dist[i][j], pairwise_dist[i][j]), gamma[i]))))

\* sum_neg / (sum_all + 1e-16), clamped, and 1 - outlier_prob
InlierFromKernel(kernel_matrix, anchor_negative_mask) ==
  Vec(Len(kernel_matrix), LAMBDA i :
    QSub(One,
         Clamp(QDiv(QSum(Vec(Len(kernel_matrix), LAMBDA j :
                      QMul(kernel_matrix[i][j], ToFloat(anchor_negative_mask[i][j])))),
                    QAdd(QSub(QSum(kernel_matrix[i]), kernel_matrix[i][i]), Eps)),
               Eps, QSub(One, Eps))))

\* The per-anchor inlier probability, from the kernel bandwidth of each row.
InlierProb(pairwise_dist, lab, gamma) ==
  InlierFromKernel(KernelMatrix(pairwise_dist, gamma),
                   get_anchor_negative_triplet_mask(lab))

\* The bandwidth of each row; kernel_width is <<>> for None and <<w>> for
\* the width w, which gives every row the same gamma.
OutlierGamma(pairwise_dist, kernel_width) ==
  IF kernel_width = <<>>
  THEN Vec(Len(pairwise_dist), LAMBDA i :
         AdaptiveGamma(KthSmallest(pairwise_dist[i], TopK)))
  ELSE Vec(Len(pairwise_dist), LAMBDA i : BandwidthGamma(kernel_width[1]))

\* torch.sum(triplet_loss * inlier_prob)
WeightedSum(triplet_loss, inlier_prob) ==
  QSum(Flatten3(Cube(Len(triplet_loss), LAMBDA i, j, k :
                  QMul(triplet_loss[i][j][k], inlier_prob[i])),
                Len(triplet_loss)))

\* assert num_hard_triplets > 1e-16, then the weighted average
OutlierReduce(triplet_loss, num_hard_triplets, inlier_prob, gamma) ==
  IF ~QGt(Num(num_hard_triplets), Eps)
  THEN [status |-> "AssertionError", raised_by |-> "assert",
        num |-> num_hard_triplets, gamma |-> gamma]
  ELSE [status |-> "returned",
        loss |-> QDiv(WeightedSum(triplet_loss, inlier_prob),
                      QAdd(Num(num_hard_triplets), Eps)),
        num |-> num_hard_triplets,
        gamma |-> gamma]

OutlierHinge(triplet_loss, inlier_prob, gamma) ==
  OutlierReduce(triplet_loss, CountHard(Flatten3(triplet_loss, Len(triplet_loss))),
                inlier_prob, gamma)

OutlierWithGamma(pairwise_dist, lab, margin, gamma) ==
  OutlierHinge(HingeTensor(pairwise_dist, get_triplet_mask(lab), margin),
               InlierProb(pairwise_dist, lab, gamma), gamma)

\* topk(k=8) raises when a row has fewer than 8 elements, and
\* self.kernel_width ** 2 when the square is out of the float64 range.
OutlierFromDistances(pairwise_dist, lab, margin, kernel_width) ==
  IF kernel_width = <<>> /\ Len(lab) < TopK
  THEN [status |-> "RuntimeError", raised_by |-> "topk"]
  ELSE IF kernel_width # <<>> /\ SquareOverflows(kernel_width[1])
  THEN [status |-> "OverflowError", raised_by |-> "pow"]
  ELSE OutlierWithGamma(pairwise_dist, lab, margin,
                        OutlierGamma(pairwise_dist, kernel_width))

BatchAllWithOutlierTripletLoss_forward(emb, lab, margin, squared, kernel_width) ==
  OutlierFromDistances(pairwise_distance(emb, squared), lab, margin, kernel_width)

\* exp(row - max(row)), the numerators of the softmax
SoftmaxNumerators(row, m) == Vec(Len(row), LAMBDA j : QExp(QSub(row[j], m)))

\* The source calls F.softmax and does not say how the kernel of the build
\* normalises: it divides each numerator by the sum of the row, or it
\* multiplies each numerator by the reciprocal of the sum.  The two differ
\* in the last bit of a probability, and the forward pass takes either.
SoftmaxKinds == {"quotient", "reciprocal"}

SoftmaxNormalise(e, total, kind) ==
  IF kind = "quotient"
  THEN Vec(Len(e), LAMBDA j : QDiv(e[j], total))
  ELSE LET reciprocal == QDiv(One, total)
       IN Vec(Len(e), LAMBDA j : QMul(e[j], reciprocal))

SoftmaxOf(e, kind) == SoftmaxNormalise(e, QSum(e), kind)

\* F.softmax(row, dim=1).  A masked element is exp(-inf) = 0 exactly and
\* stays 0 however the row is normalised; a row of -inf alone has the
\* numerators exp(-inf - (-inf)) = NaN and is NaN throughout.
softmax(row, kind) == SoftmaxOf(SoftmaxNumerators(row, RowMax(row)), kind)

\* torch.mul(pairwise_dist, -gamma), masked_fill_(mask ^ 1, -inf), F.softmax
MaskedSoftmax(pairwise_dist, gamma, candidates, kind) ==
  Vec(Len(pairwise_dist), LAMBDA i :
    softmax(Vec(Len(pairwise_dist), LAMBDA j :
              IF (candidates[i][j] + 1) % 2 = 1 THEN NegInf
              ELSE QMul(pairwise_dist[i][j], QNeg(gamma))),
            kind))

\* torch.sum(pairwise_dist * prob, dim=1)
Expected(pairwise_dist, prob) ==
  Vec(Len(pairwise_dist), LAMBDA i :
    QSum(Vec(Len(pairwise_dist), LAMBDA j : QMul(pairwise_dist[i][j], prob[i][j]))))

\* F.relu(ap - an + self.margin)
LargeMarginHinge(ap, an, margin) ==
  Vec(Len(ap), LAMBDA i : relu(QAdd(QSub(ap[i], an[i]), margin)))

\* torch.mean(hinge_loss) and the count of the elements above 1e-16
LargeMarginReduce(hinge_loss) ==
  [status |-> "returned",
   loss |-> QDiv(QSum(hinge_loss), Num(Len(hinge_loss))),
   num |-> IntSum(Vec(Len(hinge_loss), LAMBDA i : GtEps(hinge_loss[i])))]

LargeMarginCombine(pairwise_dist, margin, gamma, nearest_positive_prob, nearest_negative_prob) ==
  [gamma |-> gamma,
   nearest_positive_prob |-> nearest_positive_prob,
   nearest_negative_prob |-> nearest_negative_prob]
  @@ LargeMarginReduce(
       LargeMarginHinge(Expected(pairwise_dist, nearest_positive_prob),
                        Expected(pairwise_dist, nearest_negative_prob), margin))

LargeMarginFromDistances(pairwise_dist, lab, margin, gamma, kind) ==
  LargeMarginCombine(
    pairwise_dist, margin, gamma,
    MaskedSoftmax(pairwise_dist, gamma, get_anchor_positive_triplet_mask(lab), kind),
    MaskedSoftmax(pairwise_dist, gamma, get_anchor_negative_triplet_mask(lab), kind))

\* The result holds, besides (loss, num), gamma and the two distributions.
\* The outcome depends on the torch release.  Where a comparison gives a
\* uint8 tensor (torch <= 1.1) the masks are uint8, mask ^ 1 is their
\* complement and forward returns.  Where it gives a bool tensor
\* (torch >= 1.2) ~labels_equal is bool, mask ^ 1 is an int64 tensor and
\* masked_fill_ raises RuntimeError.  Before either, self.kernel_width ** 2
\* raises OverflowError when the square is out of the float64 range.
LargeMarginLoss_forward(emb, lab, margin, squared, kernel_width, bool_masks, kind) ==
  IF SquareOverflows(kernel_width)
  THEN [status |-> "OverflowError", raised_by |-> "pow"]
  ELSE IF bool_masks
  THEN [status |-> "RuntimeError", raised_by |-> "masked_fill_",
        gamma |-> BandwidthGamma(kernel_width)]
  ELSE LargeMarginFromDistances(pairwise_distance(emb, squared), lab, margin,
                                BandwidthGamma(kernel_width), kind)

(***************************************************************************)
(* Inputs.                                                                 *)
(***************************************************************************)
\* Embedding rows (of integers) whose pairwise distances are 0, 1 and 2.
GridPoints == {<<0, 1>>, <<1, 1>>, <<2, 1>>}
\* The corners of the unit square.
SquarePoints == {<<0, 0>>, <<0, 1>>, <<1, 0>>, <<1, 1>>}
\* Embedding rows whose squared norms need more than 24 bits.
LargePoints == {<<22, 0>>, <<10001, 0>>}
Classes == {0, 1}
\* margin: 0, 1 and 1e-16.
Margins == {Zero, One, Eps}
\* kernel_width of LargeMarginLoss: 1.0 (the default) and 2.0.
KernelWidths == {PyOne, PyTwo}
\* kernel_width of BatchAllWithOutlierTripletLoss: None (the default) and 1.0.
OptionalKernelWidths == {<<>>, <<PyOne>>}

NoCall == [fn |-> "none"]
NoResult == [status |-> "none"]


(***************************************************************************)
(* Calls of the module-level functions.                                    *)
(***************************************************************************)
Call_get_triplet_mask ==
  /\ call.fn = "none"
  /\ call' = [fn |-> "get_triplet_mask"]
  /\ ret' = [status |-> "returned", mask |-> get_triplet_mask(labels)]
  /\ UNCHANGED <<embeddings, labels>>

Call_get_anchor_positive_triplet_mask ==
  /\ call.fn = "none"
  /\ call' = [fn |-> "get_anchor_positive_triplet_mask"]
  /\ ret' = [status |-> "returned", mask |-> get_anchor_positive_triplet_mask(labels)]
  /\ UNCHANGED <<embeddings, labels>>

Call_get_anchor_negative_triplet_mask ==
  /\ call.fn = "none"
  /\ call' = [fn |-> "get_anchor_negative_triplet_mask"]
  /\ ret' = [status |-> "returned", mask |-> get_anchor_negative_triplet_mask(labels)]
  /\ UNCHANGED <<embeddings, labels>>

Call_pairwise_distance ==
  /\ call.fn = "none"
  /\ \E squared \in BOOLEAN :
       /\ call' = [fn |-> "pairwise_distance", squared |-> squared]
       /\ ret' = [status |-> "returned",
                  distances |-> pairwise_distance(embeddings, squared)]
  /\ UNCHANGED <<embeddings, labels>>

(***************************************************************************)
(* Forward passes of the loss modules, each constructed with its options.  *)
(***************************************************************************)
BatchHard_forward ==
  /\ call.fn = "none"
  /\ \E margin \in Margins, squared \in BOOLEAN, soft_margin \in BOOLEAN :
       /\ call' = [fn |-> "BatchHardTripletLoss", margin |-> margin,
                   squared |-> squared, soft_margin |-> soft_margin]
       /\ ret' = BatchHardTripletLoss_forward(embeddings, labels, margin, squared, soft_margin)
  /\ UNCHANGED <<embeddings, labels>>

BatchAll_forward ==
  /\ call.fn = "none"
  /\ \E margin \in Margins, squared \in BOOLEAN, soft_margin \in BOOLEAN :
       /\ call' = [fn |-> "BatchAllTripletLoss", margin |-> margin,
                   squared |-> squared, soft_margin |-> soft_margin]
       /\ ret' = BatchAllTripletLoss_forward(embeddings, labels, margin, squared, soft_margin)
  /\ UNCHANGED <<embeddings, labels>>

BatchAllWithOutlier_forward ==
  /\ call.fn = "none"
  /\ \E margin \in Margins, squared \in BOOLEAN, kernel_width \in OptionalKernelWidths :
       /\ call' = [fn |-> "BatchAllWithOutlierTripletLoss", margin |-> margin,
                   squared |-> squared, kernel_width |-> kernel_width]
       /\ ret' = BatchAllWithOutlierTripletLoss_forward(embeddings, labels, margin, squared, kernel_width)
  /\ UNCHANGED <<embeddings, labels>>

LargeMargin_forward ==
  /\ call.fn = "none"
  /\ \E margin \in Margins, squared \in BOOLEAN, kernel_width \in KernelWidths,
        bool_masks \in BOOLEAN, kind \in SoftmaxKinds :
       /\ call' = [fn |-> "LargeMarginLoss", margin |-> margin,
                   squared |-> squared, kernel_width |-> kernel_width]
       /\ ret' = LargeMarginLoss_forward(embeddings, labels, margin, squared,
                                         kernel_width, bool_masks, kind)
  /\ UNCHANGED <<embeddings, labels>>

\* The caller takes the result; the next call starts from the same batch.
Return ==
  /\ call.fn # "none"
  /\ call' = NoCall
  /\ ret' = NoResult
  /\ UNCHANGED <<embeddings, labels>>

(***************************************************************************)
(* Specifications.                                                         *)
(***************************************************************************)
Init ==
  /\ \E n \in 1..MaxN :
       /\ embeddings \in [1..n -> GridPoints]
       /\ labels \in [1..n -> Classes]
  /\ call = NoCall
  /\ ret = NoResult

Next ==
  \/ Call_get_triplet_mask
  \/ Call_get_anchor_positive_triplet_mask
  \/ Call_get_anchor_negative_triplet_mask
  \/ Call_pairwise_distance
  \/ BatchHard_forward
  \/ BatchAll_forward
  \/ BatchAllWithOutlier_forward
  \/ LargeMargin_forward
  \/ Return

Spec == Init /\ [][Next]_vars

\* pairwise_distance alone, on batches that also hold large coordinates.
InitDist ==
  /\ \E n \in 1..MaxDistN :
       /\ embeddings \in [1..n -> GridPoints \cup LargePoints]
       /\ labels = [i \in 1..n |-> 0]
  /\ call = NoCall
  /\ ret = NoResult

NextDist ==
  \/ Call_pairwise_distance
  \/ Return


SpecDist == InitDist /\ [][NextDist]_vars

\* The two losses that average the hinge, on batches of up to MaxPairN rows
\* at the corners of the unit square.
InitPairs ==
  /\ \E n \in 1..MaxPairN :
       /\ embeddings \in [1..n -> SquarePoints]
       /\ labels \in [1..n -> Classes]
  /\ call = NoCall
  /\ ret = NoResult

NextPairs ==
  \/ BatchHard_forward
  \/ BatchAll_forward
  \/ Return

SpecPairs == InitPairs /\ [][NextPairs]_vars

(***************************************************************************)
(* Vocabulary of the properties: the batch size, the valid candidates of   *)
(* an anchor and the valid triplets, read off the labels.                  *)
(***************************************************************************)
N == Len(labels)

ValidPositives(a) == {p \in 1..N : p # a /\ labels[p] = labels[a]}

ValidNegatives(a) == {n \in 1..N : labels[n] # labels[a]}

ValidTriplets ==
  {t \in (1..N) \X (1..N) \X (1..N) :
     /\ t[1] # t[2] /\ t[1] # t[3] /\ t[2] # t[3]
     /\ labels[t[1]] = labels[t[2]]
     /\ labels[t[1]] # labels[t[3]]}

\* The distance matrix of the batch under the squared flag of the call.
D == pairwise_distance(embeddings, call.squared)

\* dist[a][p] - dist[a][n] + margin of the call, for the triplet t = (a, p, n).
TripletValue(dist, t) ==
  QAdd(QSub(dist[t[1]][t[2]], dist[t[1]][t[3]]), call.margin)

\* The sum of F over the members of S.
SumOver(S, F(_)) ==
  LET sum[T \in SUBSET S] ==
        IF T = {} THEN Zero
        ELSE LET x == CHOOSE y \in T : TRUE
             IN  QAdd(F(x), sum[T \ {x}])
  IN  sum[S]

\* The squared norm of row i as an integer, before any rounding.
RECURSIVE IntDotFrom(_, _)
IntDotFrom(u, k) == IF k > Len(u) THEN 0 ELSE u[k] * u[k] + IntDotFrom(u, k + 1)

\* Rows whose norms, dot product and distance float32 computes exactly.
SmallNorm == 2 ^ 22

ExactPair(i, j) ==
  /\ IntDotFrom(embeddings[i], 1) < SmallNorm
  /\ IntDotFrom(embeddings[j], 1) < SmallNorm

(***************************************************************************)
(* C1: get_triplet_mask(labels)[a][p][n] is true iff a, p, n are pairwise  *)
(* distinct, labels[a] = labels[p] and labels[a] # labels[n]; so           *)
(* mask[a][a][n] and mask[a][p][a] are false.                              *)
(***************************************************************************)
C1_TripletMaskIff ==
  call.fn = "get_triplet_mask" =>
    /\ \A a \in 1..N, p \in 1..N, n \in 1..N :
         /\ ret.mask[a][p][n] \in {0, 1}
         /\ ret.mask[a][p][n] = 1 <=> <<a, p, n>> \in ValidTriplets
    /\ \A a \in 1..N, x \in 1..N :
         ret.mask[a][a][x] = 0 /\ ret.mask[a][x][a] = 0

\* A mask with a true entry and a triple that only the reuse of the anchor
\* as its own positive makes invalid.
C1_Witness ==
  /\ call.fn = "get_triplet_mask"
  /\ \E a \in 1..N, p \in 1..N, n \in 1..N : ret.mask[a][p][n] = 1
  /\ \E a \in 1..N, n \in 1..N : labels[a] # labels[n] /\ ret.mask[a][a][n] = 0

(***************************************************************************)
(* C2: the anchor-positive mask is true at (a, p) iff a # p and            *)
(* labels[a] = labels[p]; the anchor-negative mask is true at (a, n) iff   *)
(* labels[a] # labels[n]; neither is true on the diagonal.                 *)
(***************************************************************************)
C2_PairMasksIff ==
  /\ call.fn = "get_anchor_positive_triplet_mask" =>
       \A a \in 1..N, p \in 1..N :
         /\ ret.mask[a][p] \in {0, 1}
         /\ ret.mask[a][p] = 1 <=> p \in ValidPositives(a)
         /\ ret.mask[a][a] = 0
  /\ call.fn = "get_anchor_negative_triplet_mask" =>
       \A a \in 1..N, n \in 1..N :
         /\ ret.mask[a][n] \in {0, 1}
         /\ ret.mask[a][n] = 1 <=> n \in ValidNegatives(a)
         /\ ret.mask[a][a] = 0

\* A positive mask with a true entry, a false off-diagonal entry and a
\* false diagonal.
C2_Witness ==
  /\ call.fn = "get_anchor_positive_triplet_mask"
  /\ \E a \in 1..N, p \in 1..N : a # p /\ ret.mask[a][p] = 1
  /\ \E a \in 1..N, p \in 1..N : a # p /\ ret.mask[a][p] = 0
  /\ \A a \in 1..N : ret.mask[a][a] = 0

(***************************************************************************)
(* C3: the matrix returned by pairwise_distance is non-negative, has an    *)
(* exactly zero diagonal, and in unsquared mode reports exactly 0 where    *)
(* the squared distance is 0.                                              *)
(***************************************************************************)
DistanceBasics ==
  \A i \in 1..N, j \in 1..N :
    /\ ~QLt(ret.distances[i][j], Zero)
    /\ ret.distances[i][j] # NaN
    /\ ret.distances[i][i] = Zero
    /\ (~call.squared /\ pairwise_distance(embeddings, TRUE)[i][j] = Zero)
         => ret.distances[i][j] = Zero

\* C3 as amended: the matrix is non-negative with an exactly zero diagonal
\* and exact zeros for coinciding rows in unsquared mode; D[i][j] = D[j][i]
\* holds for the pairs of rows whose squared norms float32 holds exactly.
C3_DistanceAmended ==
  call.fn = "pairwise_distance" =>
    /\ DistanceBasics
    /\ \A i \in 1..N, j \in 1..N :
         ExactPair(i, j) => ret.distances[i][j] = ret.distances[j][i]

\* C3 as claimed: moreover D[i][j] = D[j][i] for all i, j of every batch.
C3_DistanceSymmetric ==
  call.fn = "pairwise_distance" =>
    /\ DistanceBasics
    /\ \A i \in 1..N, j \in 1..N : ret.distances[i][j] = ret.distances[j][i]

\* An unsquared matrix with two coinciding rows at distance exactly 0 and
\* a positive entry.
C3_Witness ==
  /\ call.fn = "pairwise_distance"
  /\ ~call.squared
  /\ \E i \in 1..N, j \in 1..N :
       i # j /\ embeddings[i] = embeddings[j] /\ ret.distances[i][j] = Zero
  /\ \E i \in 1..N, j \in 1..N :
       QGt(ret.distances[i][j], Zero) /\ ret.distances[i][j] = ret.distances[j][i]

(***************************************************************************)
(* C4: in BatchHardTripletLoss.forward the hardest-positive value of an    *)
(* anchor is the maximum of D[a][p] over its valid positives and the       *)
(* hardest-negative value is the minimum of D[a][n] over its valid         *)
(* negatives.                                                              *)
(***************************************************************************)
IsMaxOver(v, row, S) ==
  /\ \E p \in S : v = row[p]
  /\ \A p \in S : ~QLt(v, row[p])

IsMinOver(v, row, S) ==
  /\ \E n \in S : v = row[n]
  /\ \A n \in S : ~QLt(row[n], v)

HardestWhereValid(dist) ==
  \A a \in 1..N :
    /\ ValidPositives(a) # {} =>
         IsMaxOver(ret.hardest_positive_dist[a], dist[a], ValidPositives(a))
    /\ ValidNegatives(a) # {} =>
         IsMinOver(ret.hardest_negative_dist[a], dist[a], ValidNegatives(a))

HardestEverywhere(dist) ==
  \A a \in 1..N :
    /\ IsMaxOver(ret.hardest_positive_dist[a], dist[a], ValidPositives(a))
    /\ IsMinOver(ret.hardest_negative_dist[a], dist[a], ValidNegatives(a))

\* C4 as amended: the hardest positive is the maximum over the valid
\* positives for every anchor that has a valid positive, and the hardest
\* negative is the minimum over the valid negatives for every anchor that
\* has a valid negative.
C4_HardestAmended == call.fn = "BatchHardTripletLoss" => HardestWhereValid(D)

\* C4 as claimed: for every anchor of every batch the hardest positive is
\* attained by a valid positive and the hardest negative by a valid negative.
C4_HardestEveryAnchor == call.fn = "BatchHardTripletLoss" => HardestEverywhere(D)

HardestNegativeBeatsInvalid(dist) ==
  \E a \in 1..N :
    /\ \E m \in ValidNegatives(a), n \in ValidNegatives(a) : QLt(dist[a][m], dist[a][n])
    /\ QLt(dist[a][a], ret.hardest_negative_dist[a])

\* An anchor with two valid negatives at different distances, whose own
\* (invalid) entry is nearer than both, and an anchor with a valid positive.
C4_Witness ==
  /\ call.fn = "BatchHardTripletLoss"
  /\ HardestNegativeBeatsInvalid(D)
  /\ \E a \in 1..N :
       /\ ValidPositives(a) # {}
       /\ QGt(ret.hardest_positive_dist[a], Zero)

(***************************************************************************)
(* C5: BatchAllTripletLoss.forward with soft_margin=False counts the valid *)
(* triplets whose value D[a][p] - D[a][n] + margin is hard, and returns    *)
(* the sum of max(0, value) over the valid triplets divided by             *)
(* (count + epsilon).                                                      *)
(***************************************************************************)
Hinge(dist, t) == QMax(Zero, TripletValue(dist, t))

\* The number of valid triplets whose value is above the threshold.
CountAbove(dist, threshold) ==
  Cardinality({t \in ValidTriplets : QGt(TripletValue(dist, t), threshold)})

\* The hinge sum over the valid triplets divided by (count + 1e-16).
AverageOver(dist, count) ==
  QDiv(SumOver(ValidTriplets, LAMBDA t : Hinge(dist, t)), QAdd(Num(count), Eps))

ReturnsCountAndAverage(dist, count) ==
  /\ ret.status = "returned"
  /\ ret.num = count
  /\ ret.loss = AverageOver(dist, count)

CountsAbove(dist, threshold) ==
  ReturnsCountAndAverage(dist, CountAbove(dist, threshold))

\* What the code returns: the count is the number of valid triplets whose
\* value exceeds 1e-16 (line 261), and the loss is the hinge sum over the
\* valid triplets divided by (count + 1e-16).
BatchAllCountsAboveEps ==
  (call.fn = "BatchAllTripletLoss" /\ ~call.soft_margin) => CountsAbove(D, Eps)

\* C5 as claimed: the count is the number of valid triplets whose value is
\* strictly positive.
C5_BatchAllStrictlyPositive ==
  (call.fn = "BatchAllTripletLoss" /\ ~call.soft_margin) => CountsAbove(D, Zero)

HasHardAndTinyTriplet(dist) ==
  /\ \E t \in ValidTriplets : QGt(TripletValue(dist, t), Eps)
  /\ \E t \in ValidTriplets :
       QGt(TripletValue(dist, t), Zero) /\ ~QGt(TripletValue(dist, t), Eps)

\* A batch with a counted triplet, a valid triplet whose value is positive
\* but not above 1e-16, and an invalid triple.
C5_Witness ==
  /\ call.fn = "BatchAllTripletLoss"
  /\ ~call.soft_margin
  /\ HasHardAndTinyTriplet(D)
  /\ ret.num = 1
  /\ QGt(ret.loss, Zero)

(***************************************************************************)
(* C6: BatchAllTripletLoss.forward with margin=0 and soft_margin=False     *)
(* returns count 0 and loss exactly 0 on a batch whose valid               *)
(* anchor-positive distances are all below the valid anchor-negative       *)
(* distances of the same anchor, and on a batch with no valid triplet.     *)
(***************************************************************************)
WellSeparated(dist) ==
  \A a \in 1..N : \A p \in ValidPositives(a), n \in ValidNegatives(a) :
    QLt(dist[a][p], dist[a][n])

C6_WellSeparatedZero ==
  (/\ call.fn = "BatchAllTripletLoss"
   /\ ~call.soft_margin
   /\ call.margin = Zero
   /\ (ValidTriplets = {} \/ WellSeparated(D))) =>
    /\ ret.status = "returned"
    /\ ret.num = 0
    /\ ret.loss = Zero

\* A well-separated batch that has valid triplets, returned as (0, 0).
C6_Witness ==
  /\ call.fn = "BatchAllTripletLoss"
  /\ ~call.soft_margin
  /\ call.margin = Zero
  /\ ValidTriplets # {}
  /\ WellSeparated(D)
  /\ ret.num = 0
  /\ ret.loss = Zero

(***************************************************************************)
(* C7: BatchAllWithOutlierTripletLoss.forward aborts at the assertion on a *)
(* batch whose hard-triplet count is 0, where BatchAllTripletLoss returns, *)
(* and returns a result on every batch whose hard-triplet count is >= 1.   *)
(***************************************************************************)
HardCount == CountAbove(D, Eps)

AbortsIffNoHardTriplet(count) ==
  /\ count = 0 =>
       /\ ret.status = "AssertionError"
       /\ BatchAllTripletLoss_forward(embeddings, labels, call.margin,
                                      call.squared, FALSE).status = "returned"
  /\ count >= 1 => ret.status = "returned"

C7_AssertionIsTheOnlyAbort ==
  call.fn = "BatchAllWithOutlierTripletLoss" => AbortsIffNoHardTriplet(HardCount)

\* A batch with a hard triplet on which the call with the default
\* kernel_width ends in topk's error.
C7_Witness ==
  /\ call.fn = "BatchAllWithOutlierTripletLoss"
  /\ call.kernel_width = <<>>
  /\ HardCount >= 1
  /\ ret.status = "RuntimeError"

(***************************************************************************)
(* C8: BatchHardTripletLoss.forward and BatchAllTripletLoss.forward, with  *)
(* the same margin and squared flag and soft_margin=False, return the same *)
(* loss on a batch in which each anchor has exactly one valid positive and *)
(* exactly one valid negative, so that a single triplet survives per       *)
(* anchor.                                                                 *)
(*                                                                         *)
(* No batch gives every anchor exactly one valid negative as well as one   *)
(* valid positive: every class would have 2 rows and the batch 2 + 1 = 3.  *)
(* The batches the sentence describes are those in which each anchor has   *)
(* exactly one valid positive and exactly one valid negative whose triplet *)
(* survives the hinge, such as 4 rows in 2 classes of 2.                   *)
(***************************************************************************)
OnePositiveOneNegative ==
  \A a \in 1..N :
    /\ Cardinality(ValidPositives(a)) = 1
    /\ Cardinality(ValidNegatives(a)) = 1

\* The valid triplets of anchor a whose value is above the threshold.
SurvivingAbove(dist, a, threshold) ==
  {t \in ValidTriplets : t[1] = a /\ QGt(TripletValue(dist, t), threshold)}

\* Each anchor has one valid positive and one valid negative whose triplet
\* has a positive value.
OneSurvivingTriplet(dist) ==
  \A a \in 1..N :
    /\ Cardinality(ValidPositives(a)) = 1
    /\ Cardinality(SurvivingAbove(dist, a, Zero)) = 1

\* The loss of BatchAllTripletLoss.forward on the batch, with the options
\* of the call.
BatchAllLoss ==
  BatchAllTripletLoss_forward(embeddings, labels, call.margin, call.squared, FALSE).loss

SameLossWhereCounted ==
  (/\ call.fn = "BatchHardTripletLoss"
   /\ ~call.soft_margin
   /\ OneSurvivingTriplet(D)
   /\ \A a \in 1..N : SurvivingAbove(D, a, Eps) = SurvivingAbove(D, a, Zero)) =>
    ret.loss = BatchAllLoss

SumTolerance == <<1, -20>>

NearOne(x) ==
  /\ x # NaN
  /\ ~QLt(x, QSub(One, SumTolerance))
  /\ ~QGt(x, QAdd(One, SumTolerance))

ZeroOutside(row, S) == \A j \in (1..N) \ S : row[j] = Zero

IsDistributionOn(row, S) ==
  /\ ZeroOutside(row, S)
  /\ S # {} => NearOne(SumOver(S, LAMBDA j : row[j]))

\* C9 as claimed: forward returns the two distributions, and each is a
\* distribution on the valid candidates of its anchor, for every anchor of
\* every batch.
C9_SoftmaxEveryAnchor ==
  call.fn = "LargeMarginLoss" =>
    /\ ret.status = "returned"
    /\ \A a \in 1..N :
         /\ IsDistributionOn(ret.nearest_positive_prob[a], ValidPositives(a))
         /\ IsDistributionOn(ret.nearest_negative_prob[a], ValidNegatives(a))

\* What the code returns when it returns: the row of an anchor with a
\* candidate is a distribution on the candidates, and the row of an anchor
\* without one is NaN throughout.
IsNaNRow(row) == \A j \in 1..N : row[j] = NaN

SoftmaxRowsOrNaN ==
  (call.fn = "LargeMarginLoss" /\ ret.status = "returned") =>
    \A a \in 1..N :
      /\ IF ValidPositives(a) # {}
         THEN IsDistributionOn(ret.nearest_positive_prob[a], ValidPositives(a))
         ELSE IsNaNRow(ret.nearest_positive_prob[a])
      /\ IF ValidNegatives(a) # {}
         THEN IsDistributionOn(ret.nearest_negative_prob[a], ValidNegatives(a))
         ELSE IsNaNRow(ret.nearest_negative_prob[a])

\* A returned forward pass in which an anchor has two valid positives that
\* share the probability unequally, its diagonal entry being 0, and no
\* valid negative, so that its negative row is NaN.
C9_Witness ==
  /\ call.fn = "LargeMarginLoss"
  /\ ret.status = "returned"
  /\ \E a \in 1..N :
       /\ \E p \in ValidPositives(a), q \in ValidPositives(a) :
            /\ QLt(Zero, ret.nearest_positive_prob[a][p])
            /\ QLt(ret.nearest_positive_prob[a][p], ret.nearest_positive_prob[a][q])
       /\ ret.nearest_positive_prob[a][a] = Zero
       /\ IsDistributionOn(ret.nearest_positive_prob[a], ValidPositives(a))
       /\ IsNaNRow(ret.nearest_negative_prob[a])

(***************************************************************************)
(* C10: the bandwidth coefficient gamma of LargeMarginLoss and of          *)
(* BatchAllWithOutlierTripletLoss is 1 / (2 * width^2 + epsilon), so it    *)
(* decreases as the width grows.                                           *)
(***************************************************************************)
ClaimedGamma(width) ==
  QDiv(One, QAdd(QMul(Two, QMul(PyToFloat32(width), PyToFloat32(width))), Eps))

C10_GammaIsReciprocal ==
  /\ call.fn = "LargeMarginLoss" => ret.gamma = ClaimedGamma(call.kernel_width)
  /\ (/\ call.fn = "BatchAllWithOutlierTripletLoss"
      /\ call.kernel_width # <<>>
      /\ ret.status # "RuntimeError") =>
       \A a \in 1..N : ret.gamma[a] = ClaimedGamma(call.kernel_width[1])

\* The forward pass with kernel_width = 2.0, whose gamma is 2.0.
C10_Witness ==
  /\ call.fn = "LargeMarginLoss"
  /\ call.kernel_width = PyTwo
  /\ ret.gamma = Two
  /\ QGt(ret.gamma, BandwidthGamma(PyOne))

====
